---- MODULE Spec2Model ----
(***************************************************************************)
(* neostow: a declarative symlink manager (src/src/main.rs).               *)
(*                                                                         *)
(* The model covers run, process_line, create_symlink, expand_path,        *)
(* prompt_user and run_diff, over an explicit filesystem with symbolic     *)
(* links.  Strings are sequences of one-character strings, so that the     *)
(* parsing and the expansion are computed as the code computes them.       *)
(* The flags verbose and debug only select what is printed and are not     *)
(* part of the state.                                                      *)
(***************************************************************************)
EXTENDS Integers, Sequences, FiniteSets, TLC

VARIABLES
    cfg,        \* Config: mode, force, dry, basedir (immutable during a run)
    manifest,   \* the lines of cfg.file, in order
    env,        \* the process environment, in enumeration order
    fs,         \* the filesystem
    pc,         \* where main is: "running", "done", "aborted", "panicked"
    linenum,    \* run's linenum
    operations, \* main's operations counter
    errlog,     \* line numbers for which run logged an error
    outcomes,   \* how each line of this run ended (history)
    last,       \* what the most recent line did (history)
    fsPrev,     \* the filesystem before the most recent line (history)
    fsStart,    \* the filesystem when the current run started (history)
    mutations,  \* entries of this run that changed the object at dest (history)
    firstRun    \* the outcome of the previous run of main, if any (history)

vars == <<cfg, manifest, env, fs, pc, linenum, operations, errlog, outcomes,
          last, fsPrev, fsStart, mutations, firstRun>>

----------------------------------------------------------------------------
(* Strings *)

IsWs(c) == c \in {" ", "\t", "\n", "\r"}

RECURSIVE TrimStart(_)
TrimStart(s) ==
    IF s # <<>> /\ IsWs(Head(s)) THEN TrimStart(Tail(s)) ELSE s

RECURSIVE TrimEnd(_)
TrimEnd(s) ==
    IF s # <<>> /\ IsWs(s[Len(s)]) THEN TrimEnd(SubSeq(s, 1, Len(s) - 1)) ELSE s

\* str::trim
Trim(s) == TrimEnd(TrimStart(s))

\* str::find(char): <<>> is None, <<i>> is Some(i), i counted from 0
Find(s, c) ==
    IF \E i \in 1..Len(s) : s[i] = c
    THEN <<(CHOOSE i \in 1..Len(s) :
                s[i] = c /\ \A j \in 1..(i - 1) : s[j] # c) - 1>>
    ELSE <<>>

StartsWith(s, pat) ==
    Len(s) >= Len(pat) /\ SubSeq(s, 1, Len(pat)) = pat

\* str::replace: every non-overlapping match, left to right
RECURSIVE Replace(_, _, _)
Replace(s, pat, val) ==
    IF Len(s) < Len(pat) \/ pat = <<>> THEN s
    ELSE IF StartsWith(s, pat)
         THEN val \o Replace(SubSeq(s, Len(pat) + 1, Len(s)), pat, val)
         ELSE <<Head(s)>> \o Replace(Tail(s), pat, val)

\* str::replacen(pat, val, 1)
ReplaceFirst(s, pat, val) ==
    IF StartsWith(s, pat) THEN val \o SubSeq(s, Len(pat) + 1, Len(s)) ELSE s

\* str::splitn(2, c)
SplitN2(s, c) ==
    LET i == Find(s, c)
    IN  IF i = <<>> THEN <<s>>
        ELSE <<SubSeq(s, 1, i[1]), SubSeq(s, i[1] + 2, Len(s))>>

ToLowerChar(c) ==
    CASE c = "Y" -> "y" [] c = "E" -> "e" [] c = "S" -> "s"
      [] c = "N" -> "n" [] c = "O" -> "o" [] OTHER -> c

\* str::to_lowercase
ToLower(s) == [i \in 1..Len(s) |-> ToLowerChar(s[i])]

----------------------------------------------------------------------------
(* Paths: std::path::PathBuf as its root flag and its components *)

DotDot == <<".", ".">>
Dot == <<".">>

RECURSIVE SplitSlash(_, _)
SplitSlash(s, cur) ==
    IF s = <<>> THEN <<cur>>
    ELSE IF Head(s) = "/" THEN <<cur>> \o SplitSlash(Tail(s), <<>>)
         ELSE SplitSlash(Tail(s), Append(cur, Head(s)))

\* Path::components: empty components and "." are dropped
Components(s) ==
    SelectSeq(SplitSlash(s, <<>>), LAMBDA c : c # <<>> /\ c # Dot)

\* PathBuf::from
PathFrom(s) == [abs |-> s # <<>> /\ Head(s) = "/", comps |-> Components(s)]

\* Path::join: an absolute argument replaces the receiver
Join(p, q) == IF q.abs THEN q ELSE [abs |-> p.abs, comps |-> p.comps \o q.comps]

\* Path::file_name: <<>> is None, <<name>> is Some(name)
FileName(p) ==
    IF p.comps = <<>> \/ p.comps[Len(p.comps)] = DotDot THEN <<>>
    ELSE <<p.comps[Len(p.comps)]>>

Front(s) == SubSeq(s, 1, Len(s) - 1)

\* Path::parent: <<>> is None
ParentOf(p) == IF p.comps = <<>> THEN <<>> ELSE <<[abs |-> p.abs, comps |-> Front(p.comps)]>>

----------------------------------------------------------------------------
(* The filesystem: a function from the canonical absolute paths that hold  *)
(* an object to that object.  <<>> is the root directory.  The parent of   *)
(* every object is a directory.                                            *)

DirNode == [kind |-> "dir"]
FileNode(d) == [kind |-> "file", data |-> d]
LinkNode(t) == [kind |-> "link", target |-> t]

Found(path) == [ok |-> TRUE, path |-> path, err |-> "none"]
Errno(e) == [ok |-> FALSE, path |-> <<>>, err |-> e]

\* Links followed in one lookup before ELOOP: more than any lookup without a
\* cycle follows in the filesystems of this model.
Fuel(f) == Cardinality(DOMAIN f)

\* Path lookup from directory cur along the components rest.  A symbolic
\* link is followed, except the last component when follow is FALSE.
RECURSIVE Walk(_, _, _, _, _)
Walk(f, cur, rest, follow, fuel) ==
    IF rest = <<>> THEN Found(cur)
    ELSE IF f[cur].kind # "dir" THEN Errno("ENOTDIR")
    ELSE IF Head(rest) = DotDot
         THEN Walk(f, IF cur = <<>> THEN cur ELSE Front(cur), Tail(rest), follow, fuel)
    ELSE IF Append(cur, Head(rest)) \notin DOMAIN f THEN Errno("ENOENT")
    ELSE IF f[Append(cur, Head(rest))].kind = "link" /\ (Len(rest) > 1 \/ follow)
         THEN IF fuel = 0 THEN Errno("ELOOP")
              ELSE Walk(f, IF f[Append(cur, Head(rest))].target.abs THEN <<>> ELSE cur,
                        f[Append(cur, Head(rest))].target.comps \o Tail(rest),
                        follow, fuel - 1)
    ELSE Walk(f, Append(cur, Head(rest)), Tail(rest), follow, fuel)

\* The directory a relative path starts from: main takes basedir from
\* env::current_dir()
Cwd == cfg.basedir.comps

StartDir(p) == IF p.abs THEN <<>> ELSE Cwd

\* stat(2) and lstat(2)
Stat(f, p) == Walk(f, StartDir(p), p.comps, TRUE, Fuel(f))
Lstat(f, p) == Walk(f, StartDir(p), p.comps, FALSE, Fuel(f))

\* The kind of the object a lookup found: "none", "file", "dir" or "link"
KindOf(f, found) == IF found.ok THEN f[found.path].kind ELSE "none"

\* Path::exists, Path::is_dir: any error is false
Exists(f, p) == Stat(f, p).ok
IsDir(f, p) == KindOf(f, Stat(f, p)) = "dir"

\* symlink_metadata()?.file_type().is_symlink()
IsSymlink(f, p) == KindOf(f, Lstat(f, p)) = "link"

\* The kind of the object at p itself
KindAt(f, p) == KindOf(f, Lstat(f, p))

Done(f) == [ok |-> TRUE, fs |-> f, err |-> "none"]
Failed(f, e) == [ok |-> FALSE, fs |-> f, err |-> e]

IsPrefix(a, b) == Len(a) <= Len(b) /\ SubSeq(b, 1, Len(a)) = a

\* Where a new object called name would go in the directory found as par
SlotIn(f, par, name) ==
    IF ~par.ok THEN par
    ELSE IF f[par.path].kind # "dir" THEN Errno("ENOTDIR")
    ELSE IF name = DotDot THEN Errno("EEXIST")
    ELSE IF Append(par.path, name) \in DOMAIN f THEN Errno("EEXIST")
    ELSE Found(Append(par.path, name))

\* Where a new object named by p would go
Slot(f, p) ==
    IF p.comps = <<>> THEN Errno("EEXIST")
    ELSE SlotIn(f, Walk(f, StartDir(p), Front(p.comps), TRUE, Fuel(f)),
                p.comps[Len(p.comps)])

Put(f, path, node) ==
    [q \in DOMAIN f \cup {path} |-> IF q = path THEN node ELSE f[q]]

Without(f, gone) == [q \in DOMAIN f \ gone |-> f[q]]

PutAt(f, slot, node) ==
    IF slot.ok THEN Done(Put(f, slot.path, node)) ELSE Failed(f, slot.err)

\* mkdir(2)
Mkdir(f, p) == PutAt(f, Slot(f, p), DirNode)

\* std::fs::create_dir_all: Err(_) if path.is_dir() => Ok(())
UnlessIsDir(f, p, made) ==
    IF made.ok \/ ~IsDir(f, p) THEN made ELSE Done(f)

\* std::fs::create_dir_all: the second mkdir, once the parent is made
MkdirUnder(up, p) ==
    IF ~up.ok THEN up ELSE UnlessIsDir(up.fs, p, Mkdir(up.fs, p))

RECURSIVE CreateDirAll(_, _)

\* std::fs::create_dir_all: after the first mkdir
AfterMkdir(f, p, first) ==
    IF first.ok THEN first
    ELSE IF first.err # "ENOENT" THEN UnlessIsDir(f, p, first)
    ELSE IF ParentOf(p) = <<>> THEN first
    ELSE MkdirUnder(CreateDirAll(f, ParentOf(p)[1]), p)

\* std::fs::create_dir_all
CreateDirAll(f, p) ==
    IF ~p.abs /\ p.comps = <<>> THEN Done(f) ELSE AfterMkdir(f, p, Mkdir(f, p))

\* std::os::unix::fs::symlink(target, link)
Symlink(f, target, link) == PutAt(f, Slot(f, link), LinkNode(target))

\* unlink(2) of the object found by lstat
Unlink(f, found) ==
    IF ~found.ok THEN Failed(f, found.err)
    ELSE IF f[found.path].kind = "dir" THEN Failed(f, "EISDIR")
    ELSE Done(Without(f, {found.path}))

RemoveFile_Following(f, p) == Unlink(f, Stat(f, p))

\* std::fs::remove_file
RemoveFile(f, p) == Unlink(f, Lstat(f, p))

\* Removal of the object found by lstat and of all below it: a symbolic
\* link is removed, not followed
RemoveTree(f, found) ==
    IF ~found.ok THEN Failed(f, found.err)
    ELSE IF f[found.path].kind = "link" THEN Done(Without(f, {found.path}))
    ELSE IF f[found.path].kind = "file" THEN Failed(f, "ENOTDIR")
    ELSE IF found.path = <<>> THEN Failed(f, "EBUSY")
    ELSE Done(Without(f, {q \in DOMAIN f : IsPrefix(found.path, q)}))

\* std::fs::remove_dir_all
RemoveDirAll(f, p) == RemoveTree(f, Lstat(f, p))

----------------------------------------------------------------------------
(* The external collaborators: diff and the answer read from stdin *)

Children(f, d) == {q \in DOMAIN f : Len(q) = Len(d) + 1 /\ IsPrefix(d, q)}
NameIn(q) == q[Len(q)]

RECURSIVE SameTree(_, _, _, _)

\* diff follows symbolic links; a link it cannot follow is trouble
SameFound(f, a, b, fuel) ==
    a.ok /\ b.ok /\ SameTree(f, a.path, b.path, fuel)

\* Whether diff -r finds the objects at the canonical paths a and b equal;
\* a directory loop is trouble (exit status 2).
SameTree(f, a, b, fuel) ==
    IF fuel = 0 THEN FALSE
    ELSE IF f[a].kind = "file" /\ f[b].kind = "file" THEN f[a].data = f[b].data
    ELSE IF f[a].kind = "dir" /\ f[b].kind = "dir"
         THEN /\ {NameIn(q) : q \in Children(f, a)} = {NameIn(q) : q \in Children(f, b)}
              /\ \A q \in Children(f, a) :
                    SameFound(f, Walk(f, a, <<NameIn(q)>>, TRUE, Fuel(f)),
                              Walk(f, b, <<NameIn(q)>>, TRUE, Fuel(f)), fuel - 1)
    ELSE FALSE

\* A file compared with a directory is compared with the file of its name
\* in that directory
SameFileIn(f, file, inside) ==
    KindOf(f, inside) = "file" /\ SameTree(f, file, inside.path, Fuel(f))

DiffFound(f, src, dest, is_dir, a, b) ==
    /\ a.ok /\ b.ok
    /\ IF f[a.path].kind = f[b.path].kind
       THEN (f[a.path].kind = "dir" => is_dir) /\ SameTree(f, a.path, b.path, Fuel(f))
       ELSE IF f[a.path].kind = "file"
            THEN SameFileIn(f, a.path, Walk(f, b.path, FileName(src), TRUE, Fuel(f)))
            ELSE SameFileIn(f, b.path, Walk(f, a.path, FileName(dest), TRUE, Fuel(f)))

\* The exit status of diff [-r] -u src dest is 0
DiffExitsZero(f, src, dest, is_dir) ==
    DiffFound(f, src, dest, is_dir, Stat(f, src), Stat(f, dest))

Ok(v) == [ok |-> TRUE, val |-> v]
Err == [ok |-> FALSE, val |-> FALSE]

run_diff_Inverted(f, src, dest, is_dir, launched) ==
    IF ~launched THEN Err
    ELSE IF DiffExitsZero(f, src, dest, is_dir) THEN Ok(TRUE) ELSE Ok(FALSE)

\* run_diff: launched is whether the diff process could be started
run_diff(f, src, dest, is_dir, launched) ==
    IF ~launched THEN Err
    ELSE IF ~DiffExitsZero(f, src, dest, is_dir) THEN Ok(TRUE) ELSE Ok(FALSE)

\* What read_line gives: a line of standard input, or a read error
ReadFailure == [ok |-> FALSE, text |-> <<>>]
Typed(t) == [ok |-> TRUE, text |-> t]

prompt_user_YesUnlessNo(input) ==
    IF ~input.ok THEN Err
    ELSE Ok(ToLower(Trim(input.text)) \notin {<<"n">>, <<"n", "o">>})

\* prompt_user
prompt_user(input) ==
    IF ~input.ok THEN Err
    ELSE Ok(ToLower(Trim(input.text)) \in {<<"y">>, <<"y", "e", "s">>})

----------------------------------------------------------------------------
(* create_symlink *)

\* What the conflict check of lines 98-111 did: go is whether create_symlink
\* goes on to the match on cfg.mode ("proceed"), returns Ok(false)
\* ("declined") or returns an error ("err")
Checked(go, compared, diff, prompted) ==
    [go |-> go, compared |-> compared, diff |-> diff, prompted |-> prompted]

\* Lines 103-108: the answer to the prompt
Answered(answer) ==
    IF ~answer.ok THEN Checked("err", TRUE, "differ", TRUE)
    ELSE IF ~answer.val THEN Checked("declined", TRUE, "differ", TRUE)
    ELSE Checked("proceed", TRUE, "differ", TRUE)

\* Lines 100-109: the result of run_diff
Compared(c, do_prompt, input) ==
    IF ~do_prompt.ok THEN Checked("err", TRUE, "fail", FALSE)
    ELSE IF do_prompt.val /\ ~c.force THEN Answered(prompt_user(input))
    ELSE Checked("proceed", TRUE, IF do_prompt.val THEN "differ" ELSE "identical", FALSE)

ConflictCheck_LinksToo(f, src, dest, is_dir, c, launched, input) ==
    IF Exists(f, dest) /\ c.mode = "Overwrite"
    THEN Compared(c, run_diff(f, src, dest, is_dir, launched), input)
    ELSE Checked("proceed", FALSE, "none", FALSE)

\* Lines 98-111
ConflictCheck(f, src, dest, is_dir, c, launched, input) ==
    IF Exists(f, dest) /\ ~IsSymlink(f, dest) /\ c.mode = "Overwrite"
    THEN Compared(c, run_diff(f, src, dest, is_dir, launched), input)
    ELSE Checked("proceed", FALSE, "none", FALSE)

\* res is "true" for Ok(true), "false" for Ok(false), "err" for Err;
\* mutated is whether an object was removed or created
Outcome(res, f, mutated) == [res |-> res, fs |-> f, mutated |-> mutated]

\* Lines 119-125 and 133-139: remove what is at dest, if dest.exists()
RemoveDest(f, dest) ==
    IF Exists(f, dest)
    THEN IF IsDir(f, dest) THEN RemoveDirAll(f, dest) ELSE RemoveFile(f, dest)
    ELSE Done(f)

\* Line 169 after the removal of Mode::Delete
Deleted(f, rm) ==
    IF ~rm.ok THEN Outcome("err", f, FALSE) ELSE Outcome("true", rm.fs, rm.fs # f)

\* Mode::Delete
DoDelete(f, src, dest, c) ==
    IF c.dry THEN Outcome("false", f, FALSE) ELSE Deleted(f, RemoveDest(f, dest))

\* Lines 141 and 157: symlink(src, dest)?
Linked(f, ln, removed) ==
    IF ~ln.ok THEN Outcome("err", f, removed) ELSE Outcome("true", ln.fs, TRUE)

\* Lines 133-141
Replaced(f, rm, src, dest) ==
    IF ~rm.ok THEN Outcome("err", f, FALSE)
    ELSE Linked(rm.fs, Symlink(rm.fs, src, dest), rm.fs # f)

DoOverwrite_NotRemoving(f, src, dest, c) ==
    IF c.dry THEN Outcome("false", f, FALSE)
    ELSE Linked(f, Symlink(f, src, dest), FALSE)

\* Mode::Overwrite
DoOverwrite(f, src, dest, c) ==
    IF c.dry THEN Outcome("false", f, FALSE)
    ELSE Replaced(f, RemoveDest(f, dest), src, dest)

DoCreate_Replacing(f, src, dest, c) ==
    DoOverwrite(f, src, dest, c)

DoCreate_IgnoringDry(f, src, dest, c) ==
    Linked(f, Symlink(f, src, dest), FALSE)

\* Mode::Create
DoCreate(f, src, dest, c) ==
    IF c.dry THEN Outcome("false", f, FALSE)
    ELSE Linked(f, Symlink(f, src, dest), FALSE)

\* Lines 113-167: match cfg.mode, unless the conflict check returned
Dispatch(f, src, dest, c, go) ==
    CASE go = "err" -> Outcome("err", f, FALSE)
      [] go = "declined" -> Outcome("false", f, FALSE)
      [] go = "proceed" /\ c.mode = "Delete" -> DoDelete(f, src, dest, c)
      [] go = "proceed" /\ c.mode = "Overwrite" -> DoOverwrite(f, src, dest, c)
      [] go = "proceed" /\ c.mode = "Create" -> DoCreate(f, src, dest, c)

Returned(chk, act) ==
    [res |-> act.res, fs |-> act.fs, mutated |-> act.mutated,
     compared |-> chk.compared, diff |-> chk.diff, prompted |-> chk.prompted]

AfterCheck(f, src, dest, c, chk) ==
    Returned(chk, Dispatch(f, src, dest, c, chk.go))

create_symlink(f, src, dest, is_dir, c, launched, input) ==
    AfterCheck(f, src, dest, c, ConflictCheck(f, src, dest, is_dir, c, launched, input))

----------------------------------------------------------------------------
(* process_line *)

\* Lines 202-205: Some(parts) or None
Fields(parts) ==
    IF Len(parts) # 2 THEN <<>>
    ELSE <<[src |-> Trim(parts[1]), dst |-> Trim(parts[2])]>>

\* Lines 198-202
SplitEntry(line) ==
    IF line = <<>> THEN <<>> ELSE Fields(SplitN2(line, "="))

StripComment_Keeping(line, comment_start) == line

\* Lines 192-196
StripComment(line, comment_start) ==
    IF comment_start # <<>> /\ comment_start[1] > 0
    THEN Trim(SubSeq(line, 1, comment_start[1]))
    ELSE line

\* Lines 188-196
ParseTrimmed(line) ==
    IF line = <<>> \/ StartsWith(line, <<"#">>) THEN <<>>
    ELSE SplitEntry(StripComment(line, Find(line, "#")))

\* Lines 187-205: <<>> when the line holds no entry, else <<parts>>
ParseLine(text) == ParseTrimmed(Trim(text))

\* env::var(key): <<>> when unset
EnvVar(e, key) ==
    IF \E i \in 1..Len(e) : e[i].key = key
    THEN <<e[CHOOSE i \in 1..Len(e) : e[i].key = key].val>>
    ELSE <<>>

\* The fold of expand_path over env::vars(), in enumeration order
RECURSIVE FoldVars(_, _)
FoldVars(acc, e) ==
    IF e = <<>> THEN acc
    ELSE FoldVars(Replace(acc, <<"$">> \o Head(e).key, Head(e).val), Tail(e))

HOME == <<"H", "O", "M", "E">>

\* Lines 177-183
ExpandTilde(replaced, home) ==
    IF StartsWith(replaced, <<"~">>) /\ home # <<>>
    THEN PathFrom(ReplaceFirst(replaced, <<"~">>, home[1]))
    ELSE PathFrom(replaced)

expand_path(raw, e) == ExpandTilde(FoldVars(raw, e), EnvVar(e, HOME))

NoPath == [abs |-> FALSE, comps |-> <<>>]

\* What a line did, for the record
Report(kind, result) ==
    [kind |-> kind, result |-> result, src |-> NoPath, dest |-> NoPath,
     destWas |-> "none", parentOk |-> FALSE, compared |-> FALSE, diff |-> "none",
     prompted |-> FALSE, input |-> ReadFailure, mutated |-> FALSE,
     inc |-> 0, text |-> <<>>]

\* out is "ok" (Ok(())), "err" (Err) or "panic"; inc is what is added to
\* *operations
Ret(out, g, inc, rep) ==
    [out |-> out, fs |-> g, inc |-> inc, report |-> [rep EXCEPT !.inc = inc]]

\* Line 207
SourcePath(c, parts) == Join(c.basedir, PathFrom(parts.src))

DestPath_NoFileName(dest_base, src) == dest_base

\* Line 228
DestPath(dest_base, src) == Join(dest_base, [abs |-> FALSE, comps |-> FileName(src)])

EnsureParent_IgnoringDry(f, dest, c) ==
    IF ParentOf(dest) # <<>> THEN CreateDirAll(f, ParentOf(dest)[1]) ELSE Done(f)

\* Lines 230-234
EnsureParent(f, dest, c) ==
    IF ParentOf(dest) # <<>> /\ ~c.dry THEN CreateDirAll(f, ParentOf(dest)[1]) ELSE Done(f)

\* Lines 236-253
Counted(r, entry) ==
    Ret(IF r.res = "err" THEN "err" ELSE "ok", r.fs, IF r.res = "true" THEN 1 ELSE 0,
        [entry EXCEPT !.result = r.res, !.parentOk = TRUE, !.compared = r.compared,
                      !.diff = r.diff, !.prompted = r.prompted, !.mutated = r.mutated])

\* Lines 232-236
Reconcile(made, src, dest, is_dir, c, launched, input, entry) ==
    IF ~made.ok THEN Ret("err", made.fs, 0, entry)
    ELSE Counted(create_symlink(made.fs, src, dest, is_dir, c, launched, input), entry)

\* Lines 226-236
WithDest(f, src, dest, c, launched, input) ==
    Reconcile(EnsureParent(f, dest, c), src, dest, IsDir(f, src), c, launched, input,
              [Report("entry", "err") EXCEPT
                    !.src = src, !.dest = dest, !.destWas = KindAt(f, dest)])

WithSource_NotChecking(f, src, dest_base, c, launched, input) ==
    IF FileName(src) = <<>>
    THEN Ret("panic", f, 0, [Report("panic", "none") EXCEPT !.src = src])
    ELSE WithDest(f, src, DestPath(dest_base, src), c, launched, input)

\* Lines 219-228: the unwrap of file_name() panics on None
WithSource(f, src, dest_base, c, launched, input) ==
    IF ~Exists(f, src) THEN Ret("ok", f, 0, [Report("nosrc", "none") EXCEPT !.src = src])
    ELSE IF FileName(src) = <<>>
         THEN Ret("panic", f, 0, [Report("panic", "none") EXCEPT !.src = src])
    ELSE WithDest(f, src, DestPath(dest_base, src), c, launched, input)

\* Lines 202-213
WithParts(f, parsed, c, e, launched, input) ==
    IF parsed = <<>> THEN Ret("ok", f, 0, Report("skip", "none"))
    ELSE WithSource(f, SourcePath(c, parsed[1]), expand_path(parsed[1].dst, e),
                    c, launched, input)

process_line(f, text, c, e, launched, input) ==
    WithParts(f, ParseLine(text), c, e, launched, input)

----------------------------------------------------------------------------
(* The inputs of the model *)

MaxLines == 2

\* A sequence of one-letter names as path components
Names(s) == [i \in 1..Len(s) |-> <<s[i]>>]
AbsPath(s) == [abs |-> TRUE, comps |-> Names(s)]

\* /b holds the manifest and the sources: the file a, the directory s with
\* its own file a.  /d is the destination directory, /h is $HOME.
BaseFs ==
    (<<>> :> DirNode) @@ (Names(<<"b">>) :> DirNode) @@ (Names(<<"d">>) :> DirNode)
    @@ (Names(<<"h">>) :> DirNode) @@ (Names(<<"b", "a">>) :> FileNode(1))
    @@ (Names(<<"b", "s">>) :> DirNode) @@ (Names(<<"b", "s", "a">>) :> FileNode(2))

\* What may be at /d/a and at /d/s before the first run
InitialFs ==
    { BaseFs,
      BaseFs @@ (Names(<<"d", "a">>) :> FileNode(1)),
      BaseFs @@ (Names(<<"d", "a">>) :> FileNode(2)),
      BaseFs @@ (Names(<<"d", "a">>) :> LinkNode(AbsPath(<<"b", "a">>))),
      BaseFs @@ (Names(<<"d", "a">>) :> LinkNode(AbsPath(<<"b", "x">>))),
      BaseFs @@ (Names(<<"d", "a">>) :> DirNode),
      BaseFs @@ (Names(<<"d", "s">>) :> DirNode)
             @@ (Names(<<"d", "s", "a">>) :> FileNode(2)),
      BaseFs @@ (Names(<<"d", "s">>) :> DirNode),
      BaseFs @@ (Names(<<"d", "s">>) :> LinkNode(AbsPath(<<"b", "s">>))) }

Read(t) == [ok |-> TRUE, text |-> t]
\* A line that BufRead::lines yields as Err (not valid UTF-8)
Unreadable == [ok |-> FALSE, text |-> <<>>]

Lines ==
    { Read(<<"a", " ", "=", " ", "/", "d">>),
      Read(<<" ", "s", "=", "/", "d", " ", "#", " ", "c">>),
      Read(<<"a", " ", "=", " ", "/", "b">>),
      Read(<<"#", " ", "c">>),
      Read(<<"/", "h", "/", "n", " ", "=", " ", "/", "d">>),
      Read(<<"a", " ", "=", " ", "~", "/", "n">>),
      Read(<<"s", "/", "a", " ", "=", " ", "/", "d">>),
      Read(<<"/", " ", "=", " ", "/", "d">>),
      Read(<<"a", " ", "=", " ", "/", "d", "/", "a">>),
      Read(<<"x", "/", "a", " ", "=", " ", "/", "d">>),
      Unreadable }

Inputs ==
    { Typed(<<"y", "\n">>), Typed(<<" ", "Y", "E", "S", "\n">>),
      Typed(<<"n", "\n">>), Typed(<<>>), ReadFailure }

Modes == {"Create", "Overwrite", "Delete"}

NoRun == [ran |-> FALSE, pc |-> "none", fs |-> BaseFs, operations |-> 0,
          errlog |-> {}, outcomes |-> <<>>]

----------------------------------------------------------------------------
(* main and run *)

\* main, lines 307-361: the configuration is parsed, the manifest exists
Init ==
    /\ cfg \in [mode : Modes, force : BOOLEAN, dry : BOOLEAN,
                basedir : {AbsPath(<<"b">>)}]
    /\ env = <<[key |-> HOME, val |-> <<"/", "h">>]>>
    /\ fs \in InitialFs
    /\ manifest = <<>>
    /\ pc = "running"
    /\ linenum = 0
    /\ operations = 0
    /\ errlog = {}
    /\ outcomes = <<>>
    /\ last = Report("none", "none")
    /\ fsPrev = fs
    /\ fsStart = fs
    /\ mutations = 0
    /\ firstRun = NoRun

\* The lines the reader may yield next: any line while the file is read for
\* the first time, the same line when it is read again
NextLines ==
    IF firstRun.ran
    THEN IF linenum < Len(manifest) THEN {manifest[linenum + 1]} ELSE {}
    ELSE IF linenum < MaxLines THEN Lines ELSE {}

Remember(l) ==
    manifest' = IF firstRun.ran THEN manifest ELSE Append(manifest, l)

\* Line 263, line?: the reader fails and run returns the error
ReadError ==
    /\ pc = "running"
    /\ \E l \in NextLines :
        /\ ~l.ok
        /\ Remember(l)
        /\ linenum' = linenum + 1
        /\ pc' = "aborted"
        /\ last' = Report("readerr", "none")
        /\ outcomes' = Append(outcomes, "readerr")
        /\ fsPrev' = fs
        /\ UNCHANGED <<cfg, env, fs, operations, errlog, fsStart, mutations, firstRun>>

\* Lines 261-266: one iteration of the loop of run.  The diff process may
\* fail to start when a comparison is made; an answer is read when a prompt
\* is shown.
Line ==
    /\ pc = "running"
    /\ \E l \in NextLines :
        /\ l.ok
        /\ \E probe \in {process_line(fs, l.text, cfg, env, TRUE, ReadFailure).report} :
           \E launched \in (IF probe.compared THEN BOOLEAN ELSE {TRUE}),
              input \in (IF probe.prompted THEN Inputs ELSE {ReadFailure}) :
           \E r \in {process_line(fs, l.text, cfg, env, launched, input)} :
                /\ Remember(l)
                /\ linenum' = linenum + 1
                /\ fs' = r.fs
                /\ operations' = operations + r.inc
                /\ errlog' = IF r.out = "err" THEN errlog \cup {linenum + 1}
                             ELSE errlog
                /\ pc' = IF r.out = "panic" THEN "panicked" ELSE "running"
                /\ last' = [r.report EXCEPT !.input = input, !.text = l.text]
                /\ outcomes' = Append(outcomes,
                        IF r.report.kind = "entry" THEN r.report.result
                        ELSE r.report.kind)
                /\ fsPrev' = fs
                /\ mutations' = mutations + (IF r.report.mutated THEN 1 ELSE 0)
                /\ UNCHANGED <<cfg, env, fsStart, firstRun>>

\* Lines 266-268 and 363: the reader is exhausted, the count is printed
EndOfFile ==
    /\ pc = "running"
    /\ firstRun.ran => linenum = Len(manifest)
    /\ pc' = "done"
    /\ UNCHANGED <<cfg, manifest, env, fs, linenum, operations, errlog, outcomes,
                   last, fsPrev, fsStart, mutations, firstRun>>

\* main is started again with the same arguments, manifest and environment
Rerun ==
    /\ pc # "running"
    /\ ~firstRun.ran
    /\ firstRun' = [ran |-> TRUE, pc |-> pc, fs |-> fs, operations |-> operations,
                    errlog |-> errlog, outcomes |-> outcomes]
    /\ pc' = "running"
    /\ linenum' = 0
    /\ operations' = 0
    /\ errlog' = {}
    /\ outcomes' = <<>>
    /\ last' = Report("none", "none")
    /\ fsPrev' = fs
    /\ fsStart' = fs
    /\ mutations' = 0
    /\ UNCHANGED <<cfg, manifest, env, fs>>

Next == ReadError \/ Line \/ EndOfFile

Spec == Init /\ [][Next]_vars

NextTwice == ReadError \/ Line \/ EndOfFile \/ Rerun

\* Two runs in Create mode
InitTwice == Init /\ cfg.mode = "Create"

SpecTwice == InitTwice /\ [][NextTwice]_vars

\* Two runs in Overwrite mode with force set
InitOverwriteTwice == Init /\ cfg.mode = "Overwrite" /\ cfg.force /\ ~cfg.dry

SpecOverwriteTwice == InitOverwriteTwice /\ [][NextTwice]_vars

----------------------------------------------------------------------------
(* The parsing of process_line on its own: every line of at most MaxLen     *)
(* characters over ParseChars, and the lines the documentation gives        *)

MaxLen == 5

ParseChars == {" ", "#", "=", "a", "b"}

ParseTexts ==
    UNION {[1..n -> ParseChars] : n \in 0..MaxLen}
    \cup { <<"s", "r", "c", " ", "=", " ", "/", "d", "s", "t", " ", "#", " ",
             "n", "o", "t", "e">>,
           <<"j", "u", "s", "t", " ", "t", "e", "x", "t">>,
           <<"#", " ", "c", "o", "m", "m", "e", "n", "t">>,
           <<"\t", "a", "=", "b", "\r", "\n">> }

\* One line is about to be read; nothing but the parsing is looked at
InitParse ==
    /\ cfg = [mode |-> "Create", force |-> FALSE, dry |-> TRUE,
              basedir |-> AbsPath(<<"b">>)]
    /\ env = <<[key |-> HOME, val |-> <<"/", "h">>]>>
    /\ fs = BaseFs
    /\ manifest \in {<<Read(t)>> : t \in ParseTexts}
    /\ pc = "running"
    /\ linenum = 0
    /\ operations = 0
    /\ errlog = {}
    /\ outcomes = <<>>
    /\ last = Report("none", "none")
    /\ fsPrev = fs
    /\ fsStart = fs
    /\ mutations = 0
    /\ firstRun = NoRun

\* Lines 187-205 of process_line applied to the line; outcomes records
\* what they yield
Parse ==
    /\ pc = "running"
    /\ linenum < Len(manifest)
    /\ linenum' = linenum + 1
    /\ outcomes' = Append(outcomes, ParseLine(manifest[linenum + 1].text))
    /\ last' = [Report("parsed", "none") EXCEPT !.text = manifest[linenum + 1].text]
    /\ pc' = "done"
    /\ UNCHANGED <<cfg, manifest, env, fs, operations, errlog, fsPrev, fsStart,
                   mutations, firstRun>>

NextParse == Parse

SpecParse == InitParse /\ [][NextParse]_vars

----------------------------------------------------------------------------
(* expand_path on its own: environments that set HOME=/home/u and at most   *)
(* MaxVars other variables, in every enumeration order                      *)

MaxVars == 3

HomeU == <<"/", "h", "o", "m", "e", "/", "u">>

\* The variables an environment of the model may set: H is named by a
\* prefix of HOME, the value of A names B
Bindings ==
    { [key |-> HOME, val |-> HomeU],
      [key |-> <<"H">>, val |-> <<"z">>],
      [key |-> <<"A">>, val |-> <<"$", "B">>],
      [key |-> <<"B">>, val |-> <<"x">>],
      [key |-> <<"D">>, val |-> <<"/", "d">>] }

\* env::vars(): each variable once, in any order
Envs ==
    {e \in UNION {[1..n -> Bindings] : n \in 1..(MaxVars + 1)} :
        /\ \A i, j \in 1..Len(e) : i # j => e[i].key # e[j].key
        /\ \E i \in 1..Len(e) : e[i].key = HOME}

Raws ==
    { <<"$", "H", "O", "M", "E", "/", "x">>,
      <<"~", "/", "x">>,
      <<"$", "A">>,
      <<"$", "B", "/", "$", "A">>,
      <<"$", "D", "/", "$", "H">>,
      <<"~", "$", "A">>,
      <<"/", "d">>,
      <<"x", "~">> }

\* A destination template is about to be expanded
InitExpand ==
    /\ cfg = [mode |-> "Create", force |-> FALSE, dry |-> TRUE,
              basedir |-> AbsPath(<<"b">>)]
    /\ env \in Envs
    /\ fs = BaseFs
    /\ manifest \in {<<Read(raw)>> : raw \in Raws}
    /\ pc = "running"
    /\ linenum = 0
    /\ operations = 0
    /\ errlog = {}
    /\ outcomes = <<>>
    /\ last = Report("none", "none")
    /\ fsPrev = fs
    /\ fsStart = fs
    /\ mutations = 0
    /\ firstRun = NoRun

\* Line 213: expand_path applied to the template; outcomes records the path
Expand ==
    /\ pc = "running"
    /\ linenum < Len(manifest)
    /\ linenum' = linenum + 1
    /\ outcomes' = Append(outcomes, expand_path(manifest[linenum + 1].text, env))
    /\ last' = [Report("expanded", "none") EXCEPT !.text = manifest[linenum + 1].text]
    /\ pc' = "done"
    /\ UNCHANGED <<cfg, manifest, env, fs, operations, errlog, fsPrev, fsStart,
                   mutations, firstRun>>

NextExpand == Expand

SpecExpand == InitExpand /\ [][NextExpand]_vars

----------------------------------------------------------------------------
(* What the claims speak of *)

EntryDone == last.kind = "entry"

\* The object at p itself, "none" when there is none
ObjectAt(f, p) == IF Lstat(f, p).ok THEN f[Lstat(f, p).path] ELSE [kind |-> "none"]

\* Everything at and below the canonical path root
Subtree(f, root) == [q \in {q \in DOMAIN f : IsPrefix(root, q)} |-> f[q]]

Failures == {"err", "readerr", "panic"}

\* C1: a failure while handling one manifest line is caught and logged for
\* that line, and run goes on to the next line: run ends only when the reader
\* is exhausted.
C1_FailureCaughtRunContinues ==
    /\ pc \in {"running", "done"}
    /\ \A n \in 1..Len(outcomes) : outcomes[n] \in Failures => n \in errlog

\* C2: under dry-run the filesystem stays what it was when the run started
\* and the operation counter stays 0, in every mode.
C2_DryRunChangesNothing ==
    cfg.dry => fs = fsStart /\ operations = 0

C2_Witness ==
    /\ cfg.dry /\ cfg.mode = "Overwrite" /\ pc = "done"
    /\ EntryDone /\ last.destWas = "file" /\ last.prompted /\ last.result = "false"

\* C3: the operation counter equals the number of entries that removed or
\* created an object at dest.
C3_CounterCountsMutations ==
    operations = mutations

\* C4: the source of an entry still exists after the entry, with the content
\* it had before.
C4_SourcePreserved ==
    EntryDone =>
        LET before == Stat(fsPrev, last.src)
            after == Stat(fs, last.src)
        IN  /\ after.ok
            /\ after.path = before.path
            /\ Subtree(fs, after.path) = Subtree(fsPrev, before.path)

\* The answers that are "y" or "yes" after trimming, whatever the case
Affirmative == {Typed(<<"y", "\n">>), Typed(<<" ", "Y", "E", "S", "\n">>)}

Prompted == EntryDone /\ last.prompted

\* C5 as claimed: when the confirmation is asked, any outcome other than an
\* affirmative answer, a failure to read the answer included, is a decline:
\* nothing changes, the counter is not incremented, no error is reported.
C5_AnyOtherOutcomeDeclines ==
    (Prompted /\ last.input \notin Affirmative) =>
        fs = fsPrev /\ last.inc = 0 /\ linenum \notin errlog

\* C5 as amended: an answer that was read and is not affirmative is a decline
\* (nothing changes, no increment, no error); a failure to read the answer
\* changes nothing and increments nothing either, and is reported as the
\* entry's error.
C5_DeclineOrReadError ==
    (Prompted /\ last.input \notin Affirmative) =>
        /\ fs = fsPrev
        /\ last.inc = 0
        /\ linenum \in errlog <=> ~last.input.ok

C5_Witness ==
    /\ Prompted /\ ~cfg.dry /\ last.input = Typed(<<"n", "\n">>)
    /\ last.result = "false" /\ fs = fsPrev

\* C6: in Overwrite mode without dry-run, a dest that is a symbolic link,
\* whatever its target, is replaced without comparison or prompt: afterwards
\* dest is a link to the source and the counter was incremented.
C6_SymlinkDestReplaced ==
    (EntryDone /\ cfg.mode = "Overwrite" /\ ~cfg.dry /\ last.destWas = "link") =>
        /\ ~last.compared /\ ~last.prompted
        /\ ObjectAt(fs, last.dest) = LinkNode(last.src)
        /\ last.inc = 1

\* C7: in Create and Delete mode a regular file or real directory at dest is
\* still there, unchanged, after the entry.
C7_OnlyOverwriteRemoves ==
    (EntryDone /\ cfg.mode \in {"Create", "Delete"}
        /\ last.destWas \in {"file", "dir"}) =>
        /\ Lstat(fs, last.dest).ok
        /\ Subtree(fs, Lstat(fs, last.dest).path)
             = Subtree(fsPrev, Lstat(fsPrev, last.dest).path)

OccupiedInCreate ==
    EntryDone /\ cfg.mode = "Create" /\ last.destWas # "none"

\* C8 as claimed: in Create mode an entry whose dest is occupied leaves the
\* filesystem as it was, is reported as an error and does not increment the
\* counter; a second run of the same manifest counts 0 operations and leaves
\* the links of the first run untouched.
C8_OccupiedDestIsAnError ==
    /\ OccupiedInCreate =>
          fs = fsPrev /\ linenum \in errlog /\ last.inc = 0
    /\ (firstRun.ran /\ cfg.mode = "Create") =>
          /\ operations = 0
          /\ \A q \in DOMAIN firstRun.fs :
                firstRun.fs[q].kind = "link" => q \in DOMAIN fs /\ fs[q] = firstRun.fs[q]

\* C8 as amended: the occupied dest is left as it was and nothing is counted;
\* the error is reported unless the run is a dry-run.  In a second run every
\* entry that created its link in the first run fails without being counted,
\* and the links of the first run are untouched.
C8_OccupiedDestLeftAlone ==
    /\ OccupiedInCreate =>
          fs = fsPrev /\ last.inc = 0 /\ (linenum \in errlog <=> ~cfg.dry)
    /\ (firstRun.ran /\ cfg.mode = "Create") =>
          /\ \A n \in 1..Len(outcomes) :
                firstRun.outcomes[n] = "true" => outcomes[n] = "err" /\ n \in errlog
          /\ operations = Cardinality({n \in 1..Len(outcomes) :
                firstRun.outcomes[n] # "true" /\ outcomes[n] = "true"})
          /\ \A q \in DOMAIN firstRun.fs :
                firstRun.fs[q].kind = "link" => q \in DOMAIN fs /\ fs[q] = firstRun.fs[q]

C8_Witness ==
    /\ firstRun.ran /\ cfg.mode = "Create" /\ ~cfg.dry /\ pc = "done"
    /\ firstRun.operations = 2 /\ operations = 0 /\ errlog = {1, 2}

\* The source and the dest of each manifest line of the model, as canonical
\* paths: dest is expand(dest_template)/basename(source), source is the
\* source field joined to basedir /b (with HOME=/h)
C9_Expected(text) ==
    CASE text = <<"a", " ", "=", " ", "/", "d">> ->
            [src |-> <<"b", "a">>, dest |-> <<"d", "a">>]
      [] text = <<" ", "s", "=", "/", "d", " ", "#", " ", "c">> ->
            [src |-> <<"b", "s">>, dest |-> <<"d", "s">>]
      [] text = <<"a", " ", "=", " ", "/", "b">> ->
            [src |-> <<"b", "a">>, dest |-> <<"b", "a">>]
      [] text = <<"/", "h", "/", "n", " ", "=", " ", "/", "d">> ->
            [src |-> <<"h", "n">>, dest |-> <<"d", "n">>]
      [] text = <<"a", " ", "=", " ", "~", "/", "n">> ->
            [src |-> <<"b", "a">>, dest |-> <<"h", "n", "a">>]
      [] text = <<"s", "/", "a", " ", "=", " ", "/", "d">> ->
            [src |-> <<"b", "s", "a">>, dest |-> <<"d", "a">>]
      [] text = <<"a", " ", "=", " ", "/", "d", "/", "a">> ->
            [src |-> <<"b", "a">>, dest |-> <<"d", "a", "a">>]
      [] OTHER -> [src |-> <<>>, dest |-> <<>>]

C9_FreshDestInCreate ==
    EntryDone /\ cfg.mode = "Create" /\ ~cfg.dry /\ last.destWas = "none"

\* Exactly one new symbolic link, at dest and pointing to source; nothing
\* that existed is removed or changed; the counter goes up by one
C9_OneLinkCreated ==
    LET want == C9_Expected(last.text)
        created == {q \in DOMAIN fs : fs[q].kind = "link" /\ q \notin DOMAIN fsPrev}
    IN  /\ created = {Names(want.dest)}
        /\ fs[Names(want.dest)] = LinkNode(AbsPath(want.src))
        /\ \A q \in DOMAIN fsPrev : q \in DOMAIN fs /\ fs[q] = fsPrev[q]
        /\ last.inc = 1

\* C9 as claimed: in Create mode without dry-run, an entry whose source
\* exists and whose dest does not creates exactly one symbolic link, at dest
\* and pointing to source, and increments the counter by one.
C9_CreateMakesOneLink ==
    C9_FreshDestInCreate => C9_OneLinkCreated

\* C9 as amended: the same, for an entry whose dest's parent directory exists
\* or could be created.
C9_CreateMakesOneLinkUnderParent ==
    (C9_FreshDestInCreate /\ last.parentOk) => C9_OneLinkCreated

C9_Witness ==
    /\ C9_FreshDestInCreate /\ last.text = <<"a", " ", "=", " ", "~", "/", "n">>
    /\ operations = 1 /\ Names(<<"h", "n", "a">>) \in DOMAIN fs

\* dest was a real file or directory with the content of the source
C10_IdenticalRealDest ==
    /\ EntryDone /\ cfg.mode = "Overwrite" /\ ~cfg.dry
    /\ last.destWas \in {"file", "dir"}
    /\ LET a == Stat(fsPrev, last.src)
           b == Stat(fsPrev, last.dest)
       IN  a.ok /\ b.ok /\ SameTree(fsPrev, a.path, b.path, Fuel(fsPrev))

C11_DiffersOnDisk ==
    ~DiffExitsZero(fsPrev, last.src, last.dest, IsDir(fsPrev, last.src))

\* C11: for an entry that reaches create_symlink, the comparison is invoked
\* exactly when the mode is Overwrite and dest exists and is not a symbolic
\* link, and the prompt is shown exactly when, in addition, the comparison
\* reports a difference and force is not set.
C11_ComparedAndPromptedExactlyWhen ==
    EntryDone =>
        /\ last.compared <=>
                (cfg.mode = "Overwrite" /\ last.destWas \in {"file", "dir"})
        /\ last.prompted <=>
                (last.compared /\ last.diff # "fail" /\ C11_DiffersOnDisk /\ ~cfg.force)

C11_Witness ==
    /\ EntryDone /\ cfg.mode = "Overwrite" /\ ~cfg.force
    /\ last.destWas = "dir" /\ last.compared /\ last.prompted /\ C11_DiffersOnDisk

\* Every object of before is in after, unchanged
NothingRemoved(before, after) ==
    \A q \in DOMAIN before : q \in DOMAIN after /\ after[q] = before[q]

\* C12: in Delete mode without dry-run, for an entry whose source exists, a
\* symbolic link at dest is removed whether or not its target exists, so that
\* nothing is left at dest; and when nothing is at dest the entry removes
\* nothing and raises no error.
C12_DeleteRemovesSymlink ==
    (EntryDone /\ cfg.mode = "Delete" /\ ~cfg.dry) =>
        /\ last.destWas = "link" => ObjectAt(fs, last.dest).kind = "none"
        /\ last.destWas = "none" =>
                NothingRemoved(fsPrev, fs) /\ linenum \notin errlog

\* C13: a Delete run creates no filesystem object: every directory, file and
\* symbolic link there is after the run was there when it started.
C13_DeleteCreatesNothing ==
    cfg.mode = "Delete" => NothingRemoved(fs, fsStart)

\* The line named a source that does not exist
C14_SourceMissing ==
    last.kind \in {"entry", "nosrc"} /\ ~Exists(fsPrev, last.src)

\* C14: in every mode an entry whose source does not exist is skipped: no
\* error is reported, the filesystem is unchanged, nothing is compared or
\* asked, the counter is not incremented.
C14_MissingSourceSkipped ==
    C14_SourceMissing =>
        /\ fs = fsPrev
        /\ linenum \notin errlog
        /\ last.inc = 0
        /\ ~last.compared /\ ~last.prompted

C14_Witness ==
    /\ C14_SourceMissing /\ cfg.mode = "Delete" /\ ~cfg.dry
    /\ last.text = <<"x", "/", "a", " ", "=", " ", "/", "d">>
    /\ KindAt(fs, AbsPath(<<"d", "a">>)) = "file"

\* C15 as claimed: under dry-run no entry ends in an error, and every entry
\* whose source exists returns without having acted.
C15_DryRunNeverErrors ==
    cfg.dry => errlog = {} /\ (EntryDone => last.result = "false")

\* The comparison could not be started, or the answer could not be read
C15_CheckFailed ==
    /\ EntryDone /\ cfg.mode = "Overwrite" /\ last.compared
    /\ last.diff = "fail" \/ (last.prompted /\ ~last.input.ok)

\* C15 as amended: under dry-run no filesystem call of an entry fails; an
\* entry is reported as an error only in Overwrite mode with a real file or
\* directory at dest, when the comparison could not be started or the answer
\* to the prompt could not be read; every other entry whose source exists
\* returns without having acted.
C15_DryRunErrsOnlyAtCheck ==
    cfg.dry =>
        /\ linenum \in errlog <=> C15_CheckFailed
        /\ (EntryDone /\ ~C15_CheckFailed) => last.result = "false"

C15_Witness ==
    /\ cfg.dry /\ cfg.mode = "Create" /\ pc = "done" /\ EntryDone
    /\ last.destWas = "link" /\ last.result = "false" /\ errlog = {}

Parsed == last.kind = "parsed"

\* The trimmed line, up to its first '#' when it has one
C16_BeforeHash(t) ==
    IF Find(t, "#") = <<>> THEN t ELSE SubSeq(t, 1, Find(t, "#")[1])

\* The entry that the text before the first '#' spells: what is before its
\* first '=' and what is after it, both trimmed
C16_Entry(before) ==
    [src |-> Trim(SubSeq(before, 1, Find(before, "=")[1])),
     dst |-> Trim(SubSeq(before, Find(before, "=")[1] + 2, Len(before)))]

\* C16: parsing yields an entry if and only if the trimmed line is not
\* empty, does not begin with '#' and has an '=' before its first '#'; the
\* source is the trimmed text before the first '=', the destination template
\* the trimmed text between the first '=' and the first '#' or the end.
C16_ParseYieldsEntryIff ==
    Parsed =>
        /\ outcomes[1] # <<>> <=>
                /\ Trim(last.text) # <<>>
                /\ Head(Trim(last.text)) # "#"
                /\ Find(C16_BeforeHash(Trim(last.text)), "=") # <<>>
        /\ outcomes[1] # <<>> =>
                outcomes[1][1] = C16_Entry(C16_BeforeHash(Trim(last.text)))
        /\ Find(last.text, "=") = <<>> => outcomes[1] = <<>>

C16_Witness ==
    /\ Parsed
    /\ last.text = <<"s", "r", "c", " ", "=", " ", "/", "d", "s", "t", " ", "#",
                     " ", "n", "o", "t", "e">>
    /\ outcomes = << <<[src |-> <<"s", "r", "c">>, dst |-> <<"/", "d", "s", "t">>]>> >>

Expanded == last.kind = "expanded"

\* C17: in every environment with HOME=/home/u, whatever else is set and in
\* whatever order, $HOME/x and ~/x both expand to /home/u/x.
C17_HomeExpands ==
    (Expanded /\ EnvVar(env, HOME) = <<HomeU>>
        /\ last.text \in {<<"$", "H", "O", "M", "E", "/", "x">>, <<"~", "/", "x">>}) =>
        outcomes[1] = PathFrom(HomeU \o <<"/", "x">>)

\* The environment e in every enumeration order
C18_Orders(e) ==
    {[i \in 1..Len(e) |-> e[o[i]]] :
        o \in {o \in [1..Len(e) -> 1..Len(e)] :
                  \A i, j \in 1..Len(e) : i # j => o[i] # o[j]}}

\* The variables whose reference $K starts raw
C18_Matching(raw, e) ==
    {i \in 1..Len(e) : StartsWith(raw, <<"$">> \o e[i].key)}

C18_First(S) == CHOOSE i \in S : \A j \in S : i <= j

\* One pass over raw from left to right: a reference is replaced by the
\* value of its variable, and the scan goes on after the reference in raw
RECURSIVE C18_SinglePass(_, _)
C18_SinglePass(raw, e) ==
    IF raw = <<>> THEN <<>>
    ELSE IF C18_Matching(raw, e) = {} THEN <<Head(raw)>> \o C18_SinglePass(Tail(raw), e)
    ELSE e[C18_First(C18_Matching(raw, e))].val
         \o C18_SinglePass(SubSeq(raw, Len(e[C18_First(C18_Matching(raw, e))].key) + 2,
                                  Len(raw)), e)

\* C18: the text put in for one variable is never scanned for references to
\* another: the result is that of a single pass over the raw string, and is
\* the same in whatever order the variables are tried.
C18_NoReExpansion ==
    Expanded =>
        /\ outcomes[1] = ExpandTilde(C18_SinglePass(last.text, env), EnvVar(env, HOME))
        /\ \A e \in C18_Orders(env) : expand_path(last.text, e) = outcomes[1]

\* The second run of the manifest has ended
SecondRunOver == firstRun.ran /\ pc # "running"

C19_FirstRunDidAll ==
    /\ firstRun.pc = "done"
    /\ \A n \in 1..Len(firstRun.outcomes) : firstRun.outcomes[n] \in {"true", "skip"}

C20_Entry(n) == ParseLine(manifest[n].text)[1]
C20_Src(n) == SourcePath(cfg, C20_Entry(n))
C20_Dest(n) == DestPath(expand_path(C20_Entry(n).dst, env), C20_Src(n))

\* Lines 1 and 2 have been processed, both are entries whose source
\* existed, and both resolve to one dest, where nothing was before the run
C20_TwoEntriesOneDest ==
    /\ ~firstRun.ran /\ linenum = 2 /\ pc \in {"running", "done"}
    /\ \A n \in {1, 2} : outcomes[n] \in {"true", "false", "err"}
    /\ C20_Dest(1) = C20_Dest(2)
    /\ KindAt(fsStart, C20_Dest(1)) = "none"

\* Create: the first entry wins, the second is reported with its line
\* number; Overwrite: the last entry wins
C20_OrderDecides ==
    /\ cfg.mode = "Create" =>
            /\ ObjectAt(fs, C20_Dest(1)) = LinkNode(C20_Src(1))
            /\ errlog = {2}
            /\ operations = 1
    /\ cfg.mode = "Overwrite" =>
            /\ ObjectAt(fs, C20_Dest(2)) = LinkNode(C20_Src(2))
            /\ operations = 2

\* C20 as claimed: lines are processed one at a time from top to bottom, so
\* of two entries for one dest that was absent, in Create mode the first
\* makes the link and the second is reported as an error with its own line
\* number (counter 1), in Overwrite mode the link ends as that of the last
\* (counter 2).
C20_ManifestOrderDecides ==
    C20_TwoEntriesOneDest => C20_OrderDecides

\* C20 as amended: the same, in a run without dry-run, for a dest whose
\* parent directory exists or can be created.
C20_ManifestOrderDecidesWhenActing ==
    (C20_TwoEntriesOneDest /\ ~cfg.dry
        /\ CreateDirAll(fsStart, ParentOf(C20_Dest(1))[1]).ok) => C20_OrderDecides

C20_Witness ==
    /\ C20_TwoEntriesOneDest /\ ~cfg.dry /\ cfg.mode = "Overwrite"
    /\ manifest[1].text = <<"a", " ", "=", " ", "/", "d">>
    /\ manifest[2].text = <<"s", "/", "a", " ", "=", " ", "/", "d">>
    /\ ObjectAt(fs, AbsPath(<<"d", "a">>)) = LinkNode(AbsPath(<<"b", "s", "a">>))
    /\ operations = 2

====
